---- MODULE Spec2Model ----
(***************************************************************************)
(* Model of uvz_server.py: nine tool operations that sanitize their        *)
(* string arguments, run zero, one or three web searches, send one prompt  *)
(* to the Gemini backend and compose a report string.                      *)
(*                                                                         *)
(* A Python string is a sequence of tokens.  A character of user input is  *)
(* a one-character token; the fixed text of an f-string template, a        *)
(* backend answer and a field of a search hit are multi-character tokens,  *)
(* so the origin of every piece of a prompt stays visible.                 *)
(***************************************************************************)
EXTENDS Integers, Sequences, FiniteSets, TLC

VARIABLES
    GEMINI_API_KEY,   \* the credential read from the environment at start
    pc,               \* "idle", "await_search", "await_gemini", "done"
    op,               \* the operation being served
    args,             \* its arguments, by parameter name
    loc,              \* its local variables, by name
    search_calls,     \* the queries handed to web_search_free, in call order
    search_rets,      \* what each finished web_search_free call produced
    backend_calls,    \* the prompts handed to model.generate_content
    result,           \* how the invocation ended: returned text or exception
    san_pc,           \* position of the stand-alone sanitizer run
    san_text,         \* its input
    san_once,         \* sanitize_input(san_text)
    san_twice         \* sanitize_input(sanitize_input(san_text))

vars == <<GEMINI_API_KEY, pc, op, args, loc, search_calls, search_rets,
          backend_calls, result, san_pc, san_text, san_once, san_twice>>

op_vars == <<GEMINI_API_KEY, pc, op, args, loc, search_calls, search_rets,
             backend_calls, result>>

---------------------------------------------------------------------------
(* Bounds of the model. *)

MaxLen == 2        \* longest free-text argument
MaxDigits == 2     \* longest count argument
MaxBlocks == 5     \* most result blocks on an ordinary result page
MaxSanLen == 2     \* longest input of the stand-alone sanitizer run

---------------------------------------------------------------------------
(* Characters. *)

AsciiLetters ==
    {"a", "b", "c", "d", "e", "f", "g", "h", "i", "j", "k", "l", "m",
     "n", "o", "p", "q", "r", "s", "t", "u", "v", "w", "x", "y", "z",
     "A", "Z"}

Digits == {"0", "1", "2", "3", "4", "5", "6", "7", "8", "9"}

\* Letters outside ASCII (e-acute, a CJK ideograph), written by code point.
NonAsciiLetters == {"U+00E9", "U+4E2D"}

WhitespaceChars == {" ", "\n", "\t"}

\* Characters that are neither word characters, whitespace, '-', ',' nor '.'.
OtherChars == {"<", ";", "'", "U+0007"}

AllChars ==
    AsciiLetters \cup Digits \cup {"_"} \cup NonAsciiLetters
        \cup WhitespaceChars \cup {"-", ",", "."} \cup OtherChars

SeqsUpTo(S, n) == UNION {[1..k -> S] : k \in 0..n}

Min(a, b) == IF a < b THEN a ELSE b

Max(a, b) == IF a > b THEN a ELSE b

RECURSIVE Concat(_)
Concat(ss) == IF ss = <<>> THEN <<>> ELSE Head(ss) \o Concat(Tail(ss))

\* sep.join(parts)
RECURSIVE Join(_, _)
Join(sep, parts) ==
    IF parts = <<>> THEN <<>>
    ELSE IF Len(parts) = 1 THEN parts[1]
    ELSE parts[1] \o sep \o Join(sep, Tail(parts))

---------------------------------------------------------------------------
(* sanitize_input: re.sub(r'[^\w\s\-,.]', '', text).  The pattern is a str *)
(* pattern, so \w and \s are the Unicode classes.                          *)

\* \w of a str pattern: every character str.isalnum() accepts, and '_'.
IsWordChar(c) == c \in AsciiLetters \cup Digits \cup NonAsciiLetters \cup {"_"}

\* \s of a str pattern.
IsSpaceChar(c) == c \in WhitespaceChars

\* The negated class [^\w\s\-,.]: the characters the substitution deletes.
MatchesPatternMissingHyphen(c) ==
    ~(IsWordChar(c) \/ IsSpaceChar(c) \/ c \in {",", "."})

MatchesPattern(c) ==
    ~(IsWordChar(c) \/ IsSpaceChar(c) \/ c \in {"-", ",", "."})

sanitize_input(text) == SelectSeq(text, LAMBDA c : ~MatchesPattern(c))

---------------------------------------------------------------------------
(* str.strip() and int(). *)

RECURSIVE LStrip(_)
LStrip(s) ==
    IF s # <<>> /\ IsSpaceChar(Head(s)) THEN LStrip(Tail(s)) ELSE s

RECURSIVE RStrip(_)
RStrip(s) ==
    IF s # <<>> /\ IsSpaceChar(s[Len(s)])
    THEN RStrip(SubSeq(s, 1, Len(s) - 1))
    ELSE s

strip(s) == RStrip(LStrip(s))

\* "not x.strip()": the argument is empty or whitespace only.
IsBlankEmptyOnly(s) == s = <<>>

IsBlank(s) == strip(s) = <<>>

DigitValue(c) ==
    CASE c = "0" -> 0 [] c = "1" -> 1 [] c = "2" -> 2 [] c = "3" -> 3
      [] c = "4" -> 4 [] c = "5" -> 5 [] c = "6" -> 6 [] c = "7" -> 7
      [] c = "8" -> 8 [] c = "9" -> 9

RECURSIVE DigitsValue(_)
DigitsValue(s) ==
    IF s = <<>> THEN 0
    ELSE 10 * DigitsValue(SubSeq(s, 1, Len(s) - 1)) + DigitValue(s[Len(s)])

\* The message of the ValueError int() raises.
ValueErrorMessage(s) ==
    <<"invalid literal for int() with base 10: ", "'">> \o s \o <<"'">>

\* int(s): surrounding whitespace is ignored, one sign is allowed, then
\* one or more digits; anything else raises ValueError.
int(s) ==
    LET t == strip(s)
        signed == t # <<>> /\ t[1] \in {"-", "+"}
        body == IF signed THEN Tail(t) ELSE t
        valid == body # <<>> /\ \A i \in 1..Len(body) : body[i] \in Digits
    IN  IF valid
        THEN [raised |-> FALSE,
              value |-> IF signed /\ t[1] = "-"
                        THEN 0 - DigitsValue(body)
                        ELSE DigitsValue(body)]
        ELSE [raised |-> TRUE, exc |-> ValueErrorMessage(s)]

\* "int(x) if x.strip() else default"
IntOrDefaultNoBlankCheck(s, default) == int(s)

IntOrDefault(s, default) ==
    IF ~IsBlank(s) THEN int(s) ELSE [raised |-> FALSE, value |-> default]

\* seq[:n] of Python: a negative n counts from the end.
SliceTo(seq, n) ==
    IF n < 0
    THEN SubSeq(seq, 1, Max(Len(seq) + n, 0))
    ELSE SubSeq(seq, 1, Min(n, Len(seq)))

\* f"Error: {msg}"
ErrorString(msg) == <<"Error:", " ">> \o msg

\* The "except Exception as e: return f'Error: {str(e)}'" clause that closes
\* the try block of every operation.
except_Reraise(e) == [kind |-> "raise", exc |-> e]

except_Exception(e) == [kind |-> "return", text |-> ErrorString(e)]

---------------------------------------------------------------------------
(* The process-wide backend handle. *)

\* "if GEMINI_API_KEY: ... model = genai.GenerativeModel(...) else: model = None"
model == GEMINI_API_KEY # <<>>

NotConfigured ==
    <<"Error:", " ", "Gemini", " ", "API", " ", "key", " ", "not", " ",
      "configured">>

\* What model.generate_content(prompt) / response.text can do.
BackendOutcomes ==
    {[kind |-> "text", text |-> <<"MOCK_ANALYSIS">>],
     [kind |-> "text", text |-> <<"two", " ", "words">>],
     [kind |-> "exception", text |-> <<"quota", " ", "exceeded">>]}

NotCalled == [kind |-> "none", text |-> <<>>]

gemini_analyze(outcome) ==
    IF ~model THEN NotConfigured
    ELSE IF outcome.kind = "text" THEN outcome.text
    ELSE ErrorString(outcome.text)

---------------------------------------------------------------------------
(* web_search_free. *)

SearchLimit == 10

\* The <div class="result"> blocks a result page can hold: a full hit, a hit
\* without href and without snippet, and a block without a title link.
BlockPool ==
    << [has_title |-> TRUE, title |-> <<"Title One">>,
        link |-> <<"https://one.example/<a>">>, snippet |-> <<"Snippet; one">>],
       [has_title |-> TRUE, title |-> <<"Title Two">>,
        link |-> <<>>, snippet |-> <<>>],
       [has_title |-> FALSE, title |-> <<>>,
        link |-> <<"https://ad.example">>, snippet |-> <<"Sponsored">>] >>

Page(n, s) == [i \in 1..n |-> BlockPool[((s + i - 1) % Len(BlockPool)) + 1]]

Pages ==
    {Page(n, s) : n \in 0..MaxBlocks, s \in 0..(Len(BlockPool) - 1)}
        \cup {Page(SearchLimit + 2, 0)}

\* What the GET and the parse can do.
SearchResponses ==
    {[kind |-> k, blocks |-> <<>>] :
        k \in {"transport_error", "http_error", "parse_error"}}
    \cup {[kind |-> "ok", blocks |-> p] : p \in Pages}

\* The loop over soup.find_all('div', class_='result', limit=10).
ParseResults(blocks) ==
    LET firstBlocks == SubSeq(blocks, 1, Min(SearchLimit, Len(blocks)))
        titled == SelectSeq(firstBlocks, LAMBDA b : b.has_title)
    IN  [i \in 1..Len(titled) |->
            [title |-> titled[i].title, link |-> titled[i].link,
             snippet |-> titled[i].snippet]]

\* json.loads of what web_search_free returns.  The except clause turns every
\* failure into "[]".
web_search_free_HttpErrorEscapes(response) ==
    IF response.kind = "ok"
    THEN [raised |-> FALSE, value |-> ParseResults(response.blocks)]
    ELSE IF response.kind = "http_error"
    THEN [raised |-> TRUE, exc |-> <<"503 Service Unavailable">>]
    ELSE [raised |-> FALSE, value |-> <<>>]

web_search_free(response) ==
    IF response.kind = "ok"
    THEN [raised |-> FALSE, value |-> ParseResults(response.blocks)]
    ELSE [raised |-> FALSE, value |-> <<>>]

\* f"{i+1}. {r['title']}\n{r['snippet']}\n{r['link']}"
SourceEntry(i, r) ==
    <<ToString(i), ". ">> \o r.title \o <<"\n">> \o r.snippet \o <<"\n">>
        \o r.link

\* "\n\n".join([... for i, r in enumerate(results)])
SourcesText(results) ==
    Join(<<"\n\n">>, [i \in 1..Len(results) |-> SourceEntry(i, results[i])])

\* f"{i+1}. {r['title']}\n{r['snippet']}"
FindingEntry(i, r) ==
    <<ToString(i), ". ">> \o r.title \o <<"\n">> \o r.snippet

Findings(results) ==
    Join(<<"\n\n">>, [i \in 1..Len(results) |-> FindingEntry(i, results[i])])

\* len(content.split())
WordCount(content) ==
    LET space(t) == t \in WhitespaceChars \cup {"\n\n"}
    IN  Cardinality({i \in 1..Len(content) :
            ~space(content[i]) /\ (i = 1 \/ space(content[i - 1]))})

---------------------------------------------------------------------------
(* Arguments the caller can pass. *)

TextChars == {"a", " ", "<"}

Texts == SeqsUpTo(TextChars, MaxLen)

CountChars == {"0", "2", "-", " ", "a"}

Counts == SeqsUpTo(CountChars, MaxDigits)

Tones == {<<>>, <<"w", "r", "y">>, <<"w", ";", "r", "y">>}

landing_page == <<"l", "a", "n", "d", "i", "n", "g", "_", "p", "a", "g", "e">>
email_sequence == <<"e", "m", "a", "i", "l", "_", "s", "e", "q", "u", "e", "n", "c", "e">>
social_posts == <<"s", "o", "c", "i", "a", "l", "_", "p", "o", "s", "t", "s">>

CopyModes == {landing_page, email_sequence, social_posts}

CopyTypes ==
    CopyModes
        \cup {<<>>, <<"b", "o", "g", "u", "s">>, landing_page \o <<";">>,
              <<"<">> \o social_posts, <<" ">> \o email_sequence}

---------------------------------------------------------------------------
(* State after the module has been imported. *)

NoResult == [kind |-> "none"]

Returned(text) == [kind |-> "return", text |-> text]

NoLocals == <<>>

Init ==
    /\ GEMINI_API_KEY \in {<<>>, <<"k", "e", "y">>}
    /\ pc = "idle"
    /\ op = "none"
    /\ args = <<>>
    /\ loc = NoLocals
    /\ search_calls = <<>>
    /\ search_rets = <<>>
    /\ backend_calls = <<>>
    /\ result = NoResult
    /\ san_pc = "off"
    /\ san_text = <<>>
    /\ san_once = <<>>
    /\ san_twice = <<>>

\* The handler moves to position p with the given locals, call logs and result.
Goto(p, o, a, l, sc, sr, bc, res) ==
    /\ pc' = p
    /\ op' = o
    /\ args' = a
    /\ loc' = l
    /\ search_calls' = sc
    /\ search_rets' = sr
    /\ backend_calls' = bc
    /\ result' = res
    /\ UNCHANGED <<GEMINI_API_KEY, san_pc, san_text, san_once, san_twice>>

\* A new invocation returns res before any await.
Finish(o, a, l, res) == Goto("done", o, a, l, <<>>, <<>>, <<>>, res)

\* The text each operation returns once gemini_analyze has produced content.
Report(o, l, content) ==
    CASE o = "identify_industry_niches" ->
            <<"Industry Analysis: ">> \o l.industry_clean \o <<"\n\n">>
                \o content
                \o <<"\n\n", "Next Steps: Use drill_uvz to go deeper">>
      [] o = "drill_uvz" ->
            <<"UVZ Deep Dive: ">> \o l.niche_clean \o <<"\n\n">> \o content
      [] o = "research_uvz_topic" ->
            <<"Research Report: ">> \o l.topic_clean
                \o <<"\n\n", "AI Analysis:", "\n">> \o content
                \o <<"\n\n", "Sources:", "\n">> \o l.sources_text
      [] o = "validate_uvz_demand" ->
            <<"Demand Validation: ">> \o l.uvz_clean \o <<"\n\n">> \o content
                \o <<"\n\n", "Raw Signals:", "\n">> \o l.findings
      [] o = "generate_ebook_outline" ->
            <<"Ebook Outline Generated", "\n\n">> \o content
      [] o = "expand_chapter" ->
            <<"Chapter Expansion: ">> \o l.chapter_clean \o <<"\n\n">>
                \o content
      [] o = "generate_chapter_content" ->
            <<"Chapter Content: ">> \o l.chapter_clean \o <<"\n\n">>
                \o content
                \o <<"\n\n", "Stats: ~", ToString(WordCount(content)),
                     " words, ">>
                \o l.tone_clean \o <<" tone">>
      [] o = "competitive_analysis" ->
            <<"Competitive Analysis: ">> \o l.uvz_clean \o <<"\n\n">>
                \o content
                \o <<"\n\n", "Competitors:", "\n">> \o l.competitors_text
      [] o = "generate_marketing_copy" ->
            <<"Marketing Copy: ">> \o l.copy_type_clean
                \o <<"\n\n", "Product: ">> \o l.title_clean \o <<"\n\n">>
                \o content

\* "await gemini_analyze(prompt)": without a handle the sentinel comes back at
\* once; with one the prompt goes to the backend.
AwaitGemini(o, a, l, sc, sr, prompt) ==
    IF model
    THEN Goto("await_gemini", o, a, l, sc, sr, <<prompt>>, NoResult)
    ELSE Goto("done", o, a, l, sc, sr, <<>>,
              Returned(Report(o, l, gemini_analyze(NotCalled))))

\* The server takes a request only when it is not inside an invocation.
Fresh == pc = "idle"

---------------------------------------------------------------------------
(* Operations without search. *)

identify_industry_niches ==
    /\ Fresh
    /\ \E industry \in Texts, depth \in Counts :
        LET o == "identify_industry_niches"
            a == [industry |-> industry, depth |-> depth]
        IN  IF IsBlank(industry)
            THEN Finish(o, a, NoLocals,
                        Returned(ErrorString(<<"Industry name is required">>)))
            ELSE IF ~model
            THEN Finish(o, a, NoLocals, Returned(NotConfigured))
            ELSE LET industry_clean == sanitize_input(industry)
                     parsed == IntOrDefault(depth, 3)
                 IN  IF parsed.raised
                     THEN Finish(o, a, [industry_clean |-> industry_clean],
                                 except_Exception(parsed.exc))
                     ELSE AwaitGemini(o, a,
                            [industry_clean |-> industry_clean,
                             depth_int |-> parsed.value],
                            <<>>, <<>>,
                            <<"Analyze the ">> \o industry_clean
                              \o <<" industry and identify ",
                                   ToString(parsed.value),
                                   " highly specific niches. For each provide: 1. Niche Name 2. Market Size 3. Unique Value Zone (UVZ) 4. Target Audience 5. Differentiation 6. Monetization Potential. Format as structured markdown.">>)

drill_uvz_NoModelCheck ==
    /\ Fresh
    /\ \E niche \in Texts, focus_area \in Texts :
        LET o == "drill_uvz"
            a == [niche |-> niche, focus_area |-> focus_area]
        IN  IF IsBlank(niche)
            THEN Finish(o, a, NoLocals,
                        Returned(ErrorString(<<"Niche description is required">>)))
            ELSE LET niche_clean == sanitize_input(niche)
                     focus_clean == IF ~IsBlank(focus_area)
                                    THEN sanitize_input(focus_area)
                                    ELSE <<"general opportunities">>
                 IN  AwaitGemini(o, a,
                        [niche_clean |-> niche_clean,
                         focus_clean |-> focus_clean],
                        <<>>, <<>>,
                        <<"Deep UVZ analysis for niche: ">> \o niche_clean
                          \o <<", focus: ">> \o focus_clean
                          \o <<". Provide: Problem Statement, Target Avatar, Current Solutions, The Gap, Value Proposition, Validation Signals, Competition Level, Monetization Pathways, Quick Win Strategy. Be extremely specific.">>)

drill_uvz ==
    /\ Fresh
    /\ \E niche \in Texts, focus_area \in Texts :
        LET o == "drill_uvz"
            a == [niche |-> niche, focus_area |-> focus_area]
        IN  IF IsBlank(niche)
            THEN Finish(o, a, NoLocals,
                        Returned(ErrorString(<<"Niche description is required">>)))
            ELSE IF ~model
            THEN Finish(o, a, NoLocals, Returned(NotConfigured))
            ELSE LET niche_clean == sanitize_input(niche)
                     focus_clean == IF ~IsBlank(focus_area)
                                    THEN sanitize_input(focus_area)
                                    ELSE <<"general opportunities">>
                 IN  AwaitGemini(o, a,
                        [niche_clean |-> niche_clean,
                         focus_clean |-> focus_clean],
                        <<>>, <<>>,
                        <<"Deep UVZ analysis for niche: ">> \o niche_clean
                          \o <<", focus: ">> \o focus_clean
                          \o <<". Provide: Problem Statement, Target Avatar, Current Solutions, The Gap, Value Proposition, Validation Signals, Competition Level, Monetization Pathways, Quick Win Strategy. Be extremely specific.">>)

generate_ebook_outline ==
    /\ Fresh
    /\ \E topic \in Texts, audience \in Texts, length \in Counts :
        LET o == "generate_ebook_outline"
            a == [topic |-> topic, audience |-> audience, length |-> length]
        IN  IF IsBlank(topic)
            THEN Finish(o, a, NoLocals,
                        Returned(ErrorString(<<"Topic is required">>)))
            ELSE IF ~model
            THEN Finish(o, a, NoLocals, Returned(NotConfigured))
            ELSE LET topic_clean == sanitize_input(topic)
                     audience_clean == IF ~IsBlank(audience)
                                       THEN sanitize_input(audience)
                                       ELSE <<"general audience">>
                     parsed == IntOrDefault(length, 50)
                     l == [topic_clean |-> topic_clean,
                           audience_clean |-> audience_clean]
                 IN  IF parsed.raised
                     THEN Finish(o, a, l, except_Exception(parsed.exc))
                     ELSE AwaitGemini(o, a,
                            [topic_clean |-> topic_clean,
                             audience_clean |-> audience_clean,
                             page_count |-> parsed.value],
                            <<>>, <<>>,
                            <<"Create comprehensive ebook outline for: Topic: ">>
                              \o topic_clean \o <<", Audience: ">>
                              \o audience_clean
                              \o <<", Length: ~", ToString(parsed.value),
                                   " pages. Include: Title, Subtitle, Target Reader, Chapter Structure (10+ chapters with objectives, sections, estimated pages), Unique Selling Points, Key Takeaways, Marketing Hooks.">>)

expand_chapter ==
    /\ Fresh
    /\ \E chapter_title \in Texts, key_points \in Texts :
        LET o == "expand_chapter"
            a == [chapter_title |-> chapter_title, key_points |-> key_points]
        IN  IF IsBlank(chapter_title)
            THEN Finish(o, a, NoLocals,
                        Returned(ErrorString(<<"Chapter title is required">>)))
            ELSE IF ~model
            THEN Finish(o, a, NoLocals, Returned(NotConfigured))
            ELSE LET chapter_clean == sanitize_input(chapter_title)
                     points_clean == IF ~IsBlank(key_points)
                                     THEN key_points
                                     ELSE <<"Cover the main aspects">>
                 IN  AwaitGemini(o, a,
                        [chapter_clean |-> chapter_clean,
                         points_clean |-> points_clean],
                        <<>>, <<>>,
                        <<"Expand chapter: ">> \o chapter_clean
                          \o <<". Key points: ">> \o points_clean
                          \o <<". Provide: Opening Hook, Introduction, Main Sections (3-7 with key concepts, talking points, examples, mistakes to avoid, action steps), Chapter Summary, Transition. Include estimated word count and supporting elements needed.">>)

generate_chapter_content ==
    /\ Fresh
    /\ \E chapter_title \in Texts, outline \in Texts, tone \in Tones :
        LET o == "generate_chapter_content"
            a == [chapter_title |-> chapter_title, outline |-> outline,
                  tone |-> tone]
        IN  IF IsBlank(chapter_title) \/ IsBlank(outline)
            THEN Finish(o, a, NoLocals,
                        Returned(ErrorString(<<"Chapter title and outline required">>)))
            ELSE IF ~model
            THEN Finish(o, a, NoLocals, Returned(NotConfigured))
            ELSE LET chapter_clean == sanitize_input(chapter_title)
                     tone_clean == sanitize_input(tone)
                 IN  AwaitGemini(o, a,
                        [chapter_clean |-> chapter_clean,
                         tone_clean |-> tone_clean],
                        <<>>, <<>>,
                        <<"Write full chapter in ">> \o tone_clean
                          \o <<" tone: ">> \o chapter_clean
                          \o <<"\n\n", "Outline:", "\n">> \o outline
                          \o <<"\n\n", "Requirements: engaging prose, examples, subheadings, bullet points for lists, actionable takeaways, 2000-3000 words.">>)

UnknownCopyType ==
    ErrorString(<<"Unknown copy type. Use: landing_page, email_sequence, or social_posts">>)

\* The if / elif / elif chain over copy_type_clean.
MarketingPrompt(copy_type_clean, title_clean, uvz_clean) ==
    IF copy_type_clean = landing_page
    THEN <<"Create high-converting landing page for: ">> \o title_clean
           \o <<", UVZ: ">> \o uvz_clean
           \o <<". Include: Hero (headline, subheadline, CTA), Problem, Solution, Benefits, Social Proof, Features, Guarantee, Final CTA, FAQ.">>
    ELSE IF copy_type_clean = email_sequence
    THEN <<"Create 5-email sequence for: ">> \o title_clean
           \o <<", UVZ: ">> \o uvz_clean
           \o <<". Each email: subject, preview, body (300-500 words), CTA. Emails: 1-Welcome, 2-Story+Problem, 3-Solution, 4-Social Proof, 5-Urgency.">>
    ELSE <<"Create 10 social posts for: ">> \o title_clean
           \o <<", UVZ: ">> \o uvz_clean
           \o <<". Include 3 educational, 3 engagement, 2 promotional, 2 testimonial posts. Each: platform, text, hashtags, visual description.">>

generate_marketing_copy_NoElse ==
    /\ Fresh
    /\ \E product_title \in Texts, uvz \in Texts, copy_type \in CopyTypes :
        LET o == "generate_marketing_copy"
            a == [product_title |-> product_title, uvz |-> uvz,
                  copy_type |-> copy_type]
        IN  IF IsBlank(product_title) \/ IsBlank(uvz)
            THEN Finish(o, a, NoLocals,
                        Returned(ErrorString(<<"Product title and UVZ required">>)))
            ELSE IF ~model
            THEN Finish(o, a, NoLocals, Returned(NotConfigured))
            ELSE LET title_clean == sanitize_input(product_title)
                     uvz_clean == sanitize_input(uvz)
                     copy_type_clean == sanitize_input(copy_type)
                     l == [title_clean |-> title_clean, uvz_clean |-> uvz_clean,
                           copy_type_clean |-> copy_type_clean]
                 IN  AwaitGemini(o, a, l, <<>>, <<>>,
                            MarketingPrompt(copy_type_clean, title_clean,
                                            uvz_clean))

generate_marketing_copy ==
    /\ Fresh
    /\ \E product_title \in Texts, uvz \in Texts, copy_type \in CopyTypes :
        LET o == "generate_marketing_copy"
            a == [product_title |-> product_title, uvz |-> uvz,
                  copy_type |-> copy_type]
        IN  IF IsBlank(product_title) \/ IsBlank(uvz)
            THEN Finish(o, a, NoLocals,
                        Returned(ErrorString(<<"Product title and UVZ required">>)))
            ELSE IF ~model
            THEN Finish(o, a, NoLocals, Returned(NotConfigured))
            ELSE LET title_clean == sanitize_input(product_title)
                     uvz_clean == sanitize_input(uvz)
                     copy_type_clean == sanitize_input(copy_type)
                     l == [title_clean |-> title_clean, uvz_clean |-> uvz_clean,
                           copy_type_clean |-> copy_type_clean]
                 IN  IF copy_type_clean \in CopyModes
                     THEN AwaitGemini(o, a, l, <<>>, <<>>,
                            MarketingPrompt(copy_type_clean, title_clean,
                                            uvz_clean))
                     ELSE Finish(o, a, l, Returned(UnknownCopyType))

---------------------------------------------------------------------------
(* Operations with search. *)

\* The record kept of one finished web_search_free call.
SearchRet(response, r) ==
    [failed |-> response.kind # "ok",
     raised |-> r.raised,
     results |-> IF r.raised THEN <<>> ELSE r.value]

research_uvz_topic ==
    /\ Fresh
    /\ \E topic \in Texts, sources \in Counts :
        LET o == "research_uvz_topic"
            a == [topic |-> topic, sources |-> sources]
        IN  IF IsBlank(topic)
            THEN Finish(o, a, NoLocals,
                        Returned(ErrorString(<<"Topic is required">>)))
            ELSE LET topic_clean == sanitize_input(topic)
                     parsed == IntOrDefault(sources, 10)
                 IN  IF parsed.raised
                     THEN Finish(o, a, [topic_clean |-> topic_clean],
                                 except_Exception(parsed.exc))
                     ELSE Goto("await_search", o, a,
                               [topic_clean |-> topic_clean,
                                num_sources |-> parsed.value],
                               <<topic_clean
                                   \o <<" guide tutorial best practices">>>>,
                               <<>>, <<>>, NoResult)

research_uvz_topic_resume ==
    /\ pc = "await_search"
    /\ op = "research_uvz_topic"
    /\ \E response \in SearchResponses :
        LET r == web_search_free(response)
            rets == Append(search_rets, SearchRet(response, r))
        IN  IF r.raised
            THEN Goto("done", op, args, loc, search_calls, rets, <<>>,
                      except_Exception(r.exc))
            ELSE LET results_data == r.value
                     sources_text ==
                         SourcesText(SliceTo(results_data, loc.num_sources))
                     l == [topic_clean |-> loc.topic_clean,
                           num_sources |-> loc.num_sources,
                           results_data |-> results_data,
                           sources_text |-> sources_text]
                 IN  IF results_data = <<>>
                     THEN Goto("done", op, args,
                               [topic_clean |-> loc.topic_clean,
                                num_sources |-> loc.num_sources,
                                results_data |-> results_data],
                               search_calls, rets, <<>>,
                               Returned(<<"No search results found for: ">>
                                          \o loc.topic_clean))
                     ELSE IF model
                     THEN AwaitGemini(op, args, l, search_calls, rets,
                            <<"Based on these search results about '">>
                              \o loc.topic_clean
                              \o <<"', provide: Key Insights, Common Themes, Best Practices, Knowledge Gaps, Content Opportunities.",
                                   "\n\n">>
                              \o sources_text)
                     ELSE Goto("done", op, args, l, search_calls, rets, <<>>,
                               Returned(<<"Research Results: ">>
                                          \o loc.topic_clean
                                          \o <<"\n\n", "Sources:", "\n">>
                                          \o sources_text))

\* The list the for loop of validate_uvz_demand runs over.
DemandQueries(uvz_clean) ==
    << uvz_clean \o <<" problems">>,
       uvz_clean \o <<" solutions needed">>,
       <<"how to ">> \o uvz_clean >>

\* all_results.extend(json.loads(results)[:3])
ExtendResultsUntruncated(all_results, results) == all_results \o results

ExtendResults(all_results, results) == all_results \o SliceTo(results, 3)

validate_uvz_demand ==
    /\ Fresh
    /\ \E uvz_description \in Texts :
        LET o == "validate_uvz_demand"
            a == [uvz_description |-> uvz_description]
        IN  IF IsBlank(uvz_description)
            THEN Finish(o, a, NoLocals,
                        Returned(ErrorString(<<"UVZ description is required">>)))
            ELSE LET uvz_clean == sanitize_input(uvz_description)
                 IN  Goto("await_search", o, a,
                          [uvz_clean |-> uvz_clean, all_results |-> <<>>],
                          <<DemandQueries(uvz_clean)[1]>>,
                          <<>>, <<>>, NoResult)

validate_uvz_demand_resume ==
    /\ pc = "await_search"
    /\ op = "validate_uvz_demand"
    /\ \E response \in SearchResponses :
        LET r == web_search_free(response)
            rets == Append(search_rets, SearchRet(response, r))
            queries == DemandQueries(loc.uvz_clean)
        IN  IF r.raised
            THEN Goto("done", op, args, loc, search_calls, rets, <<>>,
                      except_Exception(r.exc))
            ELSE LET all_results == ExtendResults(loc.all_results, r.value)
                     findings == Findings(all_results)
                     l == [uvz_clean |-> loc.uvz_clean,
                           all_results |-> all_results]
                     lf == [uvz_clean |-> loc.uvz_clean,
                            all_results |-> all_results,
                            findings |-> findings]
                 IN  IF Len(search_calls) < Len(queries)
                     THEN Goto("await_search", op, args, l,
                               Append(search_calls,
                                      queries[Len(search_calls) + 1]),
                               rets, <<>>, NoResult)
                     ELSE IF all_results = <<>>
                     THEN Goto("done", op, args, l, search_calls, rets, <<>>,
                               Returned(<<"Limited demand signals found for: ">>
                                          \o loc.uvz_clean))
                     ELSE IF model
                     THEN AwaitGemini(op, args, lf, search_calls, rets,
                            <<"Analyze market signals for: ">> \o loc.uvz_clean
                              \o <<"\n\n">> \o findings
                              \o <<"\n\n",
                                   "Provide: Demand Level, Market Signals, Competition Analysis, Opportunity Score (1-10), Red Flags, Green Lights, Recommended Action (Go/No-Go).">>)
                     ELSE Goto("done", op, args, lf, search_calls, rets, <<>>,
                               Returned(<<"Market Signals: ">> \o loc.uvz_clean
                                          \o <<"\n\n">> \o findings))

competitive_analysis ==
    /\ Fresh
    /\ \E uvz \in Texts, competitors \in Counts :
        LET o == "competitive_analysis"
            a == [uvz |-> uvz, competitors |-> competitors]
        IN  IF IsBlank(uvz)
            THEN Finish(o, a, NoLocals,
                        Returned(ErrorString(<<"UVZ description is required">>)))
            ELSE LET uvz_clean == sanitize_input(uvz)
                     parsed == IntOrDefault(competitors, 5)
                 IN  IF parsed.raised
                     THEN Finish(o, a, [uvz_clean |-> uvz_clean],
                                 except_Exception(parsed.exc))
                     ELSE Goto("await_search", o, a,
                               [uvz_clean |-> uvz_clean,
                                num_competitors |-> parsed.value],
                               <<uvz_clean
                                   \o <<" courses guides products solutions">>>>,
                               <<>>, <<>>, NoResult)

competitive_analysis_resume ==
    /\ pc = "await_search"
    /\ op = "competitive_analysis"
    /\ \E response \in SearchResponses :
        LET r == web_search_free(response)
            rets == Append(search_rets, SearchRet(response, r))
        IN  IF r.raised
            THEN Goto("done", op, args, loc, search_calls, rets, <<>>,
                      except_Exception(r.exc))
            ELSE LET results_data == r.value
                     competitors_text ==
                         SourcesText(SliceTo(results_data, loc.num_competitors))
                     l == [uvz_clean |-> loc.uvz_clean,
                           num_competitors |-> loc.num_competitors,
                           results_data |-> results_data,
                           competitors_text |-> competitors_text]
                 IN  IF results_data = <<>>
                     THEN Goto("done", op, args,
                               [uvz_clean |-> loc.uvz_clean,
                                num_competitors |-> loc.num_competitors,
                                results_data |-> results_data],
                               search_calls, rets, <<>>,
                               Returned(<<"No competitors found for: ">>
                                          \o loc.uvz_clean))
                     ELSE IF model
                     THEN AwaitGemini(op, args, l, search_calls, rets,
                            <<"Analyze competitors for: ">> \o loc.uvz_clean
                              \o <<"\n\n">> \o competitors_text
                              \o <<"\n\n",
                                   "Provide: Market Saturation, Competitor Strengths, Weaknesses, Market Gaps, Differentiation Strategy, Positioning, Pricing Insights, Content Strategy.">>)
                     ELSE Goto("done", op, args, l, search_calls, rets, <<>>,
                               Returned(<<"Competitors: ">> \o loc.uvz_clean
                                          \o <<"\n\n">> \o competitors_text))

---------------------------------------------------------------------------
(* The backend answers (or fails) and the operation composes its report. *)

gemini_analyze_returns ==
    /\ pc = "await_gemini"
    /\ \E outcome \in BackendOutcomes :
        Goto("done", op, args, loc, search_calls, search_rets, backend_calls,
             Returned(Report(op, loc, gemini_analyze(outcome))))

\* mcp.run hands the returned string to the caller and waits for the next request;
\* nothing of the invocation survives.
serve_next ==
    /\ pc = "done"
    /\ Goto("idle", "none", <<>>, NoLocals, <<>>, <<>>, <<>>, NoResult)

Next ==
    \/ serve_next
    \/ identify_industry_niches
    \/ drill_uvz
    \/ research_uvz_topic
    \/ research_uvz_topic_resume
    \/ validate_uvz_demand
    \/ validate_uvz_demand_resume
    \/ generate_ebook_outline
    \/ expand_chapter
    \/ generate_chapter_content
    \/ competitive_analysis
    \/ competitive_analysis_resume
    \/ generate_marketing_copy
    \/ gemini_analyze_returns

Spec == Init /\ [][Next]_vars

---------------------------------------------------------------------------
(* sanitize_input on its own: applied once and applied again. *)

SanChars ==
    {"a", "Z", "7", "_", "U+00E9", " ", "\n", "-", ",", ".", "<", "'"}

SanInit ==
    /\ GEMINI_API_KEY = <<>>
    /\ pc = "idle"
    /\ op = "none"
    /\ args = <<>>
    /\ loc = NoLocals
    /\ search_calls = <<>>
    /\ search_rets = <<>>
    /\ backend_calls = <<>>
    /\ result = NoResult
    /\ san_pc = "start"
    /\ san_text \in SeqsUpTo(SanChars, MaxSanLen)
    /\ san_once = <<>>
    /\ san_twice = <<>>

sanitize_once ==
    /\ san_pc = "start"
    /\ san_pc' = "once"
    /\ san_once' = sanitize_input(san_text)
    /\ UNCHANGED <<op_vars, san_text, san_twice>>

sanitize_twice ==
    /\ san_pc = "once"
    /\ san_pc' = "twice"
    /\ san_twice' = sanitize_input(san_once)
    /\ UNCHANGED <<op_vars, san_text, san_once>>

SanNext == sanitize_once \/ sanitize_twice

SanSpec == SanInit /\ [][SanNext]_vars

---------------------------------------------------------------------------
(* Vocabulary of the properties. *)

\* Empty or whitespace only.
Blank(s) == \A i \in 1..Len(s) : s[i] \in WhitespaceChars

NoSearchOps ==
    {"identify_industry_niches", "drill_uvz", "generate_ebook_outline",
     "expand_chapter", "generate_chapter_content", "generate_marketing_copy"}

SearchOps == {"research_uvz_topic", "validate_uvz_demand", "competitive_analysis"}

SingleQueryOps == {"research_uvz_topic", "competitive_analysis"}

NumericOps ==
    {"identify_industry_niches", "research_uvz_topic",
     "generate_ebook_outline", "competitive_analysis"}

Invoked == op \in NoSearchOps \cup SearchOps

RequiredFields ==
    CASE op = "identify_industry_niches" -> <<args.industry>>
      [] op = "drill_uvz" -> <<args.niche>>
      [] op = "research_uvz_topic" -> <<args.topic>>
      [] op = "validate_uvz_demand" -> <<args.uvz_description>>
      [] op = "generate_ebook_outline" -> <<args.topic>>
      [] op = "expand_chapter" -> <<args.chapter_title>>
      [] op = "generate_chapter_content" -> <<args.chapter_title, args.outline>>
      [] op = "competitive_analysis" -> <<args.uvz>>
      [] op = "generate_marketing_copy" -> <<args.product_title, args.uvz>>

SomeRequiredBlank ==
    \E i \in 1..Len(RequiredFields) : Blank(RequiredFields[i])

StartsWithError(text) == Len(text) >= 1 /\ text[1] = "Error:"

Sentinel ==
    <<"Error:", " ", "Gemini", " ", "API", " ", "key", " ", "not", " ",
      "configured">>

\* The characters of the ASCII class [A-Za-z0-9_\s\-,.].
AsciiAllowed ==
    AsciiLetters \cup Digits \cup {"_"} \cup WhitespaceChars
        \cup {"-", ",", "."}

\* The same class with the word characters of every script.
UnicodeAllowed == AsciiAllowed \cup NonAsciiLetters

RECURSIVE KeepOnly(_, _)
KeepOnly(s, allowed) ==
    IF s = <<>> THEN <<>>
    ELSE (IF Head(s) \in allowed THEN <<Head(s)>> ELSE <<>>)
            \o KeepOnly(Tail(s), allowed)

Clean(s) == KeepOnly(s, UnicodeAllowed)

First(seq, n) == SubSeq(seq, 1, Min(n, Len(seq)))

CountArg ==
    CASE op = "identify_industry_niches" -> args.depth
      [] op = "research_uvz_topic" -> args.sources
      [] op = "generate_ebook_outline" -> args.length
      [] op = "competitive_analysis" -> args.competitors

CountLocal ==
    CASE op = "identify_industry_niches" -> "depth_int"
      [] op = "research_uvz_topic" -> "num_sources"
      [] op = "generate_ebook_outline" -> "page_count"
      [] op = "competitive_analysis" -> "num_competitors"

CountDefault ==
    CASE op = "identify_industry_niches" -> 3
      [] op = "research_uvz_topic" -> 10
      [] op = "generate_ebook_outline" -> 50
      [] op = "competitive_analysis" -> 5

\* Optional surrounding whitespace, an optional sign, one or more digits.
IsIntegerLiteral(s) ==
    \E lo \in 1..Len(s), hi \in 1..Len(s) :
        /\ lo <= hi
        /\ \A k \in 1..(lo - 1) : s[k] \in WhitespaceChars
        /\ \A k \in (hi + 1)..Len(s) : s[k] \in WhitespaceChars
        /\ s[lo] \in Digits \cup {"-", "+"}
        /\ s[hi] \in Digits
        /\ \A k \in (lo + 1)..hi : s[k] \in Digits

NonNumeric(s) == ~Blank(s) /\ ~IsIntegerLiteral(s)

\* The listing of single-query operations: "k. title\nsnippet\nlink" entries,
\* numbered from 1 and separated by blank lines.
RECURSIVE NumberedListing(_, _, _)
NumberedListing(results, k, withLink) ==
    IF k > Len(results) THEN <<>>
    ELSE <<ToString(k), ". ">> \o results[k].title \o <<"\n">>
            \o results[k].snippet
            \o (IF withLink THEN <<"\n">> \o results[k].link ELSE <<>>)
            \o (IF k < Len(results) THEN <<"\n\n">> ELSE <<>>)
            \o NumberedListing(results, k + 1, withLink)

ListingLocal ==
    IF op = "research_uvz_topic" THEN "sources_text" ELSE "competitors_text"

---------------------------------------------------------------------------
(* C1 *)

\* C1: whatever the arguments, the search outcomes and the backend outcomes,
\* an invocation never ends with an exception: when it has ended, it has
\* returned a string.
C1_NoExceptionCrossesBoundary ==
    /\ result.kind # "raise"
    /\ pc = "done" => result.kind = "return"

\* A run where a search failed, the backend raised, and a string came back.
C1_Witness ==
    /\ pc = "done"
    /\ op = "validate_uvz_demand"
    /\ Len(search_rets) = 3
    /\ search_rets[1].failed
    /\ Len(backend_calls) = 1
    /\ result.kind = "return"
    /\ \E k \in 1..Len(result.text) : result.text[k] = "quota"

---------------------------------------------------------------------------
(* C2 *)

\* C2: an operation called with a blank required field returns a string
\* starting with "Error:" and makes no search call and no backend call, with
\* or without a credential and whatever the other arguments.
C2_BlankRequiredFieldIsRejected ==
    (Invoked /\ SomeRequiredBlank) =>
        /\ pc = "done"
        /\ result.kind = "return"
        /\ StartsWithError(result.text)
        /\ search_calls = <<>>
        /\ backend_calls = <<>>

\* A credential is configured, the title is given, the outline is spaces only.
C2_Witness ==
    /\ pc = "done"
    /\ model
    /\ op = "generate_chapter_content"
    /\ ~Blank(args.chapter_title)
    /\ args.outline # <<>>
    /\ Blank(args.outline)
    /\ StartsWithError(result.text)

---------------------------------------------------------------------------
(* C3 *)

OtherArgsValid ==
    /\ op \in NumericOps => ~NonNumeric(CountArg)
    /\ op = "generate_marketing_copy" => args.copy_type \in CopyModes

\* C3 as stated: without a credential the backend is never invoked and every
\* one of the nine operations, given non-blank required fields and otherwise
\* valid arguments, returns "Error: Gemini API key not configured".
C3_EveryOperationReturnsSentinel ==
    ~model =>
        /\ backend_calls = <<>>
        /\ (pc = "done" /\ Invoked /\ ~SomeRequiredBlank /\ OtherArgsValid)
              => result = Returned(Sentinel)

RawListingHead ==
    CASE op = "research_uvz_topic" -> "Research Results: "
      [] op = "validate_uvz_demand" -> "Market Signals: "
      [] op = "competitive_analysis" -> "Competitors: "

NoResultsHead ==
    CASE op = "research_uvz_topic" -> "No search results found for: "
      [] op = "validate_uvz_demand" -> "Limited demand signals found for: "
      [] op = "competitive_analysis" -> "No competitors found for: "

AllSearchesEmpty ==
    \A i \in 1..Len(search_rets) : search_rets[i].results = <<>>

\* C3 (amended): without a credential the backend is never invoked; the six
\* operations that do no search return the sentinel whenever their required
\* fields are non-blank; the three search operations still search and return
\* their raw listing without analysis, or their no-results message when the
\* searches found nothing.
C3_SentinelOnlyWithoutSearch ==
    ~model =>
        /\ backend_calls = <<>>
        /\ pc # "await_gemini"
        /\ (pc = "done" /\ op \in NoSearchOps /\ ~SomeRequiredBlank)
              => result = Returned(Sentinel)
        /\ (pc = "done" /\ op \in SearchOps /\ ~SomeRequiredBlank
                /\ OtherArgsValid)
              => /\ result.kind = "return"
                 /\ search_calls # <<>>
                 /\ Len(search_rets) = Len(search_calls)
                 /\ result.text[1] =
                        IF AllSearchesEmpty THEN NoResultsHead
                        ELSE RawListingHead

\* No credential, a search that found hits, and the raw listing returned.
C3_Witness ==
    /\ ~model
    /\ pc = "done"
    /\ op = "research_uvz_topic"
    /\ ~AllSearchesEmpty
    /\ result.kind = "return"
    /\ result.text[1] = "Research Results: "

---------------------------------------------------------------------------
(* C4 *)

UnknownCopyTypeMessage ==
    <<"Error:", " ",
      "Unknown copy type. Use: landing_page, email_sequence, or social_posts">>

MarketingCalled ==
    /\ op = "generate_marketing_copy"
    /\ ~Blank(args.product_title)
    /\ ~Blank(args.uvz)

\* C4 as stated: with non-blank product_title and uvz, a copy_type that is
\* not one of the three modes yields exactly the unknown-copy-type error and
\* no backend call, and only a copy_type equal to a mode reaches the backend.
C4_UnknownCopyTypeAsStated ==
    MarketingCalled =>
        /\ args.copy_type \notin CopyModes
              => /\ pc = "done"
                 /\ result = Returned(UnknownCopyTypeMessage)
                 /\ backend_calls = <<>>
        /\ backend_calls # <<>> => args.copy_type \in CopyModes

\* C4 (amended): with a credential configured, a copy_type whose sanitized
\* form is not one of the three modes yields exactly the unknown-copy-type
\* error and no backend call; the backend is reached only with a credential
\* and a copy_type whose sanitized form is a mode; without a credential the
\* sentinel is returned whatever the copy_type.
C4_UnknownCopyTypeAfterSanitizing ==
    MarketingCalled =>
        /\ (model /\ Clean(args.copy_type) \notin CopyModes)
              => /\ pc = "done"
                 /\ result = Returned(UnknownCopyTypeMessage)
                 /\ backend_calls = <<>>
        /\ backend_calls # <<>>
              => (model /\ Clean(args.copy_type) \in CopyModes)
        /\ (model /\ Clean(args.copy_type) \in CopyModes)
              => Len(backend_calls) = 1
        /\ ~model
              => /\ pc = "done"
                 /\ result = Returned(Sentinel)
                 /\ backend_calls = <<>>

\* A credential is configured and copy_type is "bogus".
C4_Witness ==
    /\ model
    /\ pc = "done"
    /\ MarketingCalled
    /\ args.copy_type = <<"b", "o", "g", "u", "s">>
    /\ result = Returned(UnknownCopyTypeMessage)

---------------------------------------------------------------------------
(* C5 *)

Removable == AllChars \ UnicodeAllowed

HasRemovable(text) == \E k \in 1..Len(text) : text[k] \in Removable

\* C5: no prompt sent to the backend and no search query holds a character
\* of user input that the sanitizer would remove.
C5_OnlySanitizedInputLeaves ==
    /\ \A i \in 1..Len(backend_calls) : ~HasRemovable(backend_calls[i])
    /\ \A i \in 1..Len(search_calls) : ~HasRemovable(search_calls[i])

---------------------------------------------------------------------------
(* C6 *)

HasCount == CountLocal \in DOMAIN loc

\* C6: with non-blank required fields, a blank count is replaced by the
\* operation's default (3, 10, 50, 5) and a non-numeric count makes the
\* operation return a string starting with "Error:" without any search or
\* backend call.
C6_CountDefaultsAndErrors ==
    (op \in NumericOps /\ ~SomeRequiredBlank) =>
        /\ (Blank(CountArg) /\ (model \/ op \in SearchOps))
              => /\ HasCount
                 /\ loc[CountLocal] = CountDefault
                 /\ op \in NoSearchOps
                       => /\ Len(backend_calls) = 1
                          /\ \E k \in 1..Len(backend_calls[1]) :
                                backend_calls[1][k] = ToString(CountDefault)
                 /\ (op \in SingleQueryOps /\ ListingLocal \in DOMAIN loc)
                       => loc[ListingLocal] =
                            NumberedListing(
                                First(loc.results_data, CountDefault), 1, TRUE)
        /\ NonNumeric(CountArg)
              => /\ pc = "done"
                 /\ result.kind = "return"
                 /\ StartsWithError(result.text)
                 /\ search_calls = <<>>
                 /\ backend_calls = <<>>

\* competitors is blank, the search found more than five hits, five are listed.
C6_Witness ==
    /\ pc = "done"
    /\ op = "competitive_analysis"
    /\ ~SomeRequiredBlank
    /\ Blank(args.competitors)
    /\ HasCount
    /\ loc.num_competitors = 5
    /\ "results_data" \in DOMAIN loc
    /\ Len(loc.results_data) > 5
    /\ loc.competitors_text = NumberedListing(First(loc.results_data, 5), 1, TRUE)

---------------------------------------------------------------------------
(* C7 *)

\* C7: a failed search call yields an empty sequence and raises nothing, and
\* a single-query operation whose search came back empty returns its
\* no-results message and calls the backend zero times.
C7_SearchFailsSoft ==
    /\ \A i \in 1..Len(search_rets) :
          search_rets[i].failed
              => (~search_rets[i].raised /\ search_rets[i].results = <<>>)
    /\ (op \in SingleQueryOps /\ Len(search_rets) = 1
            /\ search_rets[1].results = <<>>)
          => /\ pc = "done"
             /\ result =
                  Returned(<<NoResultsHead>>
                             \o Clean(IF op = "research_uvz_topic"
                                      THEN args.topic ELSE args.uvz))
             /\ backend_calls = <<>>

\* A credential is configured and the one search of research_uvz_topic failed.
C7_Witness ==
    /\ model
    /\ pc = "done"
    /\ op = "research_uvz_topic"
    /\ Len(search_rets) = 1
    /\ search_rets[1].failed
    /\ result.text[1] = "No search results found for: "

---------------------------------------------------------------------------
(* C8 *)

\* C8 as stated: the output of sanitize is the input with every character
\* outside A-Z a-z 0-9 _ whitespace - , . removed, order kept.
C8_AsciiClassOnly ==
    san_pc \in {"once", "twice"} => san_once = KeepOnly(san_text, AsciiAllowed)

\* C8 (amended): the output of sanitize is the input with every character
\* removed that is not a word character of any script (letter, digit,
\* underscore), whitespace, hyphen, comma or period, order kept; the output
\* holds only such characters and sanitizing it again changes nothing.
C8_UnicodeWordClass ==
    /\ san_pc \in {"once", "twice"}
          => /\ san_once = KeepOnly(san_text, UnicodeAllowed)
             /\ \A k \in 1..Len(san_once) : san_once[k] \in UnicodeAllowed
    /\ san_pc = "twice" => san_twice = san_once

\* An input with a letter outside ASCII, which stays, and a character that
\* is removed.
C8_Witness ==
    /\ san_pc = "twice"
    /\ san_text = <<"U+00E9", "<">>
    /\ san_once = <<"U+00E9">>
    /\ san_twice = <<"U+00E9">>

---------------------------------------------------------------------------
(* C9 *)

DeclaredQueries(clean) ==
    << clean \o <<" problems">>, clean \o <<" solutions needed">>,
       <<"how to ">> \o clean >>

KeptPerQuery ==
    Concat([i \in 1..Len(search_rets) |-> First(search_rets[i].results, 3)])

\* C9: validate_uvz_demand with a non-blank description runs exactly three
\* searches, one at a time in the declared order, keeps the first 3 results
\* of each in query order without deduplication (at most 9 findings numbered
\* from 1), goes on after a failed query, and returns the limited-demand
\* message, with no backend call, exactly when all three found nothing.
C9_ThreeQueriesInOrder ==
    (op = "validate_uvz_demand" /\ ~SomeRequiredBlank) =>
        LET clean == Clean(args.uvz_description)
            limited == <<"Limited demand signals found for: ">> \o clean
        IN  /\ Len(search_calls) \in 1..3
            /\ search_calls = First(DeclaredQueries(clean), Len(search_calls))
            /\ Len(search_rets) =
                  IF pc = "await_search" THEN Len(search_calls) - 1
                  ELSE Len(search_calls)
            /\ pc \in {"await_gemini", "done"} => Len(search_calls) = 3
            /\ loc.all_results = KeptPerQuery
            /\ Len(loc.all_results) <= 9
            /\ "findings" \in DOMAIN loc
                  => loc.findings = NumberedListing(KeptPerQuery, 1, FALSE)
            /\ pc = "await_gemini" => ~AllSearchesEmpty
            /\ pc = "done"
                  => /\ result.kind = "return"
                     /\ (result.text = limited) <=> AllSearchesEmpty
                     /\ AllSearchesEmpty => backend_calls = <<>>
                     /\ ~AllSearchesEmpty => "findings" \in DOMAIN loc

\* The first query found more than three hits, the second failed, the third
\* found some, and the report was produced.
C9_Witness ==
    /\ pc = "done"
    /\ op = "validate_uvz_demand"
    /\ Len(search_rets) = 3
    /\ Len(search_rets[1].results) > 3
    /\ search_rets[2].failed
    /\ search_rets[3].results # <<>>
    /\ Len(backend_calls) = 1
    /\ Len(loc.all_results) = 3 + Min(3, Len(search_rets[3].results))

---------------------------------------------------------------------------
(* C10 *)

\* C10: in research_uvz_topic and competitive_analysis, with a count that
\* parses to n and a search that returned r > 0 results, the listing is the
\* first min(max(n, 0), r) results in search order numbered from 1, never more
\* than requested, and the report lists what the prompt listed.
C10_ListingIsFirstN ==
    (op \in SingleQueryOps /\ ListingLocal \in DOMAIN loc) =>
        LET n == loc[CountLocal]
            results == search_rets[1].results
            r == Len(results)
            listed == First(results, Min(Max(n, 0), r))
            listing == NumberedListing(listed, 1, TRUE)
        IN  /\ r > 0
            /\ loc[ListingLocal] = listing
            /\ backend_calls # <<>>
                  => \E k \in 1..Len(backend_calls[1]) :
                        SubSeq(backend_calls[1], k, k + Len(listing) - 1)
                            = listing
            /\ pc = "done"
                  => SubSeq(result.text, Len(result.text) - Len(listing) + 1,
                            Len(result.text)) = listing

====
